---- MODULE Spec2Model ----
(***************************************************************************)
(* A model of docxer: the batch orchestrator (orchestrator.py), the prompt *)
(* renderer (generator.py) and the Markdown-AST emitter (converter.py).    *)
(* Text is a sequence of one-character strings, so that the string         *)
(* operations of the code (replace, strip, lower, formatting) are computed *)
(* and not assumed.                                                        *)
(***************************************************************************)
EXTENDS Integers, Sequences, FiniteSets, TLC

\* ------------------------------------------------------------------ bounds
\* Largest total number of documents (sum of the kinds' counts) of a configuration.
MaxDocs == 3

\* ------------------------------------------------------------- text helpers
\* Python's falsy string / None: the orchestrator only ever tests truthiness.
Empty == <<>>

\* s[from..] (1-based), the empty text when from is past the end.
Drop(s, n) == SubSeq(s, n + 1, Len(s))

Take(s, n) == SubSeq(s, 1, n)

StartsWith(s, pat) == Len(pat) <= Len(s) /\ Take(s, Len(pat)) = pat

RECURSIVE Concat(_)
\* "".join(parts)
Concat(parts) ==
    IF parts = <<>> THEN <<>> ELSE Head(parts) \o Concat(Tail(parts))

RECURSIVE Contains(_, _)
\* pat in s
Contains(s, pat) ==
    IF Len(s) < Len(pat) THEN FALSE
    ELSE StartsWith(s, pat) \/ Contains(Tail(s), pat)

RECURSIVE StrReplace(_, _, _)
\* str.replace(pat, val) for a non-empty pat: leftmost, non-overlapping
\* occurrences, the inserted text is not searched again within this call.
StrReplace(s, pat, val) ==
    IF Len(s) < Len(pat) THEN s
    ELSE IF StartsWith(s, pat) THEN val \o StrReplace(Drop(s, Len(pat)), pat, val)
    ELSE <<Head(s)>> \o StrReplace(Tail(s), pat, val)

Digit(d) == <<"0", "1", "2", "3", "4", "5", "6", "7", "8", "9">>[d + 1]

RECURSIVE Str(_)
\* str(n) for n >= 0
Str(n) == IF n < 10 THEN <<Digit(n)>> ELSE Str(n \div 10) \o <<Digit(n % 10)>>

RECURSIVE ZeroPad(_, _)
\* left-pad with "0" up to width
ZeroPad(s, width) == IF Len(s) >= width THEN s ELSE ZeroPad(<<"0">> \o s, width)

\* f"{n:03d}"
PadWidth == 3
Format03d(n) == ZeroPad(Str(n), PadWidth)

Whitespace == {" ", "\t", "\n", "\r", "\f"}

UpperCase == <<"A", "B", "C", "D", "E", "F", "G", "H", "I", "J", "K", "L", "M",
               "N", "O", "P", "Q", "R", "S", "T", "U", "V", "W", "X", "Y", "Z">>
LowerCase == <<"a", "b", "c", "d", "e", "f", "g", "h", "i", "j", "k", "l", "m",
               "n", "o", "p", "q", "r", "s", "t", "u", "v", "w", "x", "y", "z">>

LowerChar(c) ==
    IF \E k \in 1..Len(UpperCase) : UpperCase[k] = c
    THEN LowerCase[CHOOSE k \in 1..Len(UpperCase) : UpperCase[k] = c]
    ELSE c

\* str.lower()
Lower(s) == [k \in 1..Len(s) |-> LowerChar(s[k])]

\* str.lstrip(chars)
LStrip(s, chars) ==
    IF \A k \in 1..Len(s) : s[k] \in chars THEN <<>>
    ELSE SubSeq(s, CHOOSE k \in 1..Len(s) :
                      s[k] \notin chars /\ \A j \in 1..(k - 1) : s[j] \in chars,
                Len(s))

\* str.rstrip(chars)
RStrip(s, chars) ==
    IF \A k \in 1..Len(s) : s[k] \in chars THEN <<>>
    ELSE SubSeq(s, 1, CHOOSE k \in 1..Len(s) :
                         s[k] \notin chars /\ \A j \in (k + 1)..Len(s) : s[j] \in chars)

\* str.strip() / str.strip(chars)
Strip(s, chars) == RStrip(LStrip(s, chars), chars)

\* ------------------------------------------------- orchestrator: pure helpers
\* re.sub(r'[...]', "", s) for a character class
RemoveChars(s, chars) == SelectSeq(s, LAMBDA c : c \notin chars)

\* The k-th smallest element of a finite set of numbers.
Nth(S, k) == CHOOSE x \in S : Cardinality({y \in S : y <= x}) = k

\* re.sub(r'[...]+', rep, s) for a one-character rep: every maximal run of
\* characters of the class becomes one rep.
CollapseRuns(s, chars, rep) ==
    LET kept == {k \in 1..Len(s) : s[k] \notin chars \/ k = 1 \/ s[k - 1] \notin chars}
    IN  [j \in 1..Cardinality(kept) |->
            IF s[Nth(kept, j)] \in chars THEN rep ELSE s[Nth(kept, j)]]

\* s.rsplit(sep, 1)[0] for a one-character sep
RSplitFirst(s, sep) ==
    IF \E k \in 1..Len(s) : s[k] = sep
    THEN Take(s, (CHOOSE k \in 1..Len(s) :
                     s[k] = sep /\ \A j \in (k + 1)..Len(s) : s[j] # sep) - 1)
    ELSE s

UnsafeChars == {"<", ">", ":", "\"", "/", "\\", "|", "?", "*"}

MaxFilenameLen == 100

TruncateAtDash(filename) ==
    IF Len(filename) > MaxFilenameLen
    THEN RSplitFirst(Take(filename, MaxFilenameLen), "-")
    ELSE filename

\* Mutant: underscores are kept, only whitespace becomes a dash.
SanitizeKeepsUnderscore(title) ==
    LET removed   == RemoveChars(title, UnsafeChars)
        dashed    == CollapseRuns(removed, Whitespace, "-")
        collapsed == CollapseRuns(dashed, {"-"}, "-")
        stripped  == Strip(collapsed, {"-"})
    IN  Lower(TruncateAtDash(stripped))

_sanitize_filename(title) ==
    LET removed   == RemoveChars(title, UnsafeChars)
        dashed    == CollapseRuns(removed, Whitespace \cup {"_"}, "-")
        collapsed == CollapseRuns(dashed, {"-"}, "-")
        stripped  == Strip(collapsed, {"-"})
    IN  Lower(TruncateAtDash(stripped))

\* Start-of-line positions (re.MULTILINE "^") holding "#".
HeadingStarts(markdown) ==
    {p \in 1..Len(markdown) :
        /\ markdown[p] = "#"
        /\ (p = 1 \/ markdown[p - 1] = "\n")}

\* The last position of the whitespace run that follows position p (p when
\* there is none): what a greedy \s+ consumes.
WsRunEnd(markdown, p) ==
    CHOOSE e \in p..Len(markdown) :
        /\ \A j \in (p + 1)..e : markdown[j] \in Whitespace
        /\ (e = Len(markdown) \/ markdown[e + 1] \notin Whitespace)

\* The ends q of a \s+ match after the "#" at p that leave a non-empty (.+)$.
TitleSplits(markdown, p) ==
    {q \in (p + 1)..WsRunEnd(markdown, p) :
        q + 1 <= Len(markdown) /\ markdown[q + 1] # "\n"}

\* The last position of the line that holds position s.
LineEnd(markdown, s) ==
    CHOOSE r \in s..Len(markdown) :
        /\ \A j \in s..r : markdown[j] # "\n"
        /\ (r = Len(markdown) \/ markdown[r + 1] = "\n")

SetMax(S) == CHOOSE x \in S : \A y \in S : y <= x
SetMin(S) == CHOOSE x \in S : \A y \in S : x <= y

\* re.search(r"^#\s+(.+)$", markdown, re.MULTILINE): group(1).strip(), and
\* Empty for None (the callers only test the result's truthiness).
_extract_title(markdown) ==
    LET starts == {p \in HeadingStarts(markdown) : TitleSplits(markdown, p) # {}}
    IN  IF starts = {} THEN Empty
        ELSE LET p == SetMin(starts)
                 q == SetMax(TitleSplits(markdown, p))
             IN  Strip(SubSeq(markdown, q + 1, LineEnd(markdown, q + 1)), Whitespace)

\* ------------------------------------------------------ generator: rendering
Placeholder(key) == <<"{", "{">> \o key \o <<"}", "}">>

KeySeedContent == <<"s", "e", "e", "d", "_", "c", "o", "n", "t", "e", "n", "t">>
KeyGoal == <<"g", "o", "a", "l">>
KeyStructure == <<"s", "t", "r", "u", "c", "t", "u", "r", "e">>
KeyKindName == <<"k", "i", "n", "d", "_", "n", "a", "m", "e">>
KeyDocumentNumber ==
    <<"d", "o", "c", "u", "m", "e", "n", "t", "_", "n", "u", "m", "b", "e", "r">>

\* The substitution map of render_instructions before additional_context, as
\* the (key, value) pairs of the dict in insertion order.
BuiltinVariables(context) ==
    << <<KeySeedContent, context.seed_content>>,
       <<KeyGoal, context.goal>>,
       <<KeyStructure, context.structure>>,
       <<KeyKindName, context.kind_name>>,
       <<KeyDocumentNumber, Str(context.document_number)>> >>

\* dict[key] = value: an existing key keeps its position, a new key is appended.
DictSet(variables, key, value) ==
    IF \E k \in 1..Len(variables) : variables[k][1] = key
    THEN [k \in 1..Len(variables) |->
             IF variables[k][1] = key THEN <<key, value>> ELSE variables[k]]
    ELSE Append(variables, <<key, value>>)

RECURSIVE DictUpdate(_, _)
\* dict.update(extra), extra given as its (key, value) pairs in order
DictUpdate(variables, extra) ==
    IF extra = <<>> THEN variables
    ELSE DictUpdate(DictSet(variables, Head(extra)[1], Head(extra)[2]), Tail(extra))

\* The substitution map of render_instructions.
Variables(context) ==
    IF context.additional_context # Empty
    THEN DictUpdate(BuiltinVariables(context), context.additional_context)
    ELSE BuiltinVariables(context)

\* One turn of the loop: rendered = rendered.replace("{{key}}", value)
ReplaceKey(rendered, key, value) == StrReplace(rendered, Placeholder(key), value)

RECURSIVE RenderLoop(_, _)
\* for key, value in variables.items(): rendered = rendered.replace(...)
RenderLoop(rendered, variables) ==
    IF variables = <<>> THEN rendered
    ELSE RenderLoop(ReplaceKey(rendered, Head(variables)[1], Head(variables)[2]),
                    Tail(variables))

render_instructions(instructions, context) ==
    RenderLoop(instructions, Variables(context))

\* ------------------------------------------------------ orchestrator: state
VARIABLES
    config,            \* ProjectConfig: [kinds, seed]
    seed_content,      \* the local `seed_content`
    fs,                \* output directory: file name -> number of the document
                       \* saved in it (0: a file that was there before the run)
    pc,                \* position of generate_documents
    kindIdx,           \* index of `kind` in config.kinds (outer loop)
    rep,               \* i of range(kind.count) (inner loop)
    document_number,
    generated_titles,
    context,           \* PromptContext of the current document
    markdown_content,
    title,
    base_name,
    output_path,
    prompts,           \* rendered prompts handed to the backend, in call order
    yielded,           \* (kind name, output path) pairs yielded so far
    inflight,          \* backend calls awaited and not yet returned
    calls,             \* [content, short]: backend calls started
    steps,             \* steps of the current document, in the order taken
    raisedAt,          \* number of the document whose content call raised (0: none)
    shortRaised,       \* the short-title call of the current document raised
    error              \* what propagated out of generate_documents ("" : nothing)

orchVars ==
    <<config, seed_content, fs, pc, kindIdx, rep, document_number, generated_titles, context,
      markdown_content, title, base_name, output_path, prompts, yielded,
      inflight, calls, steps, raisedAt, shortRaised, error>>

\* ------------------------------------------------- project: load_seed_data
\* Characters of file names, by code point.
CodePointOrder == <<".", "B", "a", "b", "c", "d", "m", "t", "x">>

Ord(c) == CHOOSE k \in 1..Len(CodePointOrder) : CodePointOrder[k] = c

\* a < b for str: the first position where they differ decides; a proper
\* prefix comes first.
StrLess(a, b) ==
    \E k \in 1..(Len(b)) :
        /\ \A j \in 1..(k - 1) : j <= Len(a) /\ a[j] = b[j]
        /\ \/ k = Len(a) + 1
           \/ k <= Len(a) /\ Ord(a[k]) < Ord(b[k])

RECURSIVE SortedDescending(_)
\* Mutant: the files are read in descending order of name.
SortedDescending(names) ==
    IF names = {} THEN <<>>
    ELSE LET last == CHOOSE n \in names : \A o \in names \ {n} : StrLess(o, n)
         IN  <<last>> \o SortedDescending(names \ {last})

RECURSIVE Sorted(_)
\* sorted(...) of paths of one directory.
Sorted(names) ==
    IF names = {} THEN <<>>
    ELSE LET first == CHOOSE n \in names : \A o \in names \ {n} : StrLess(n, o)
         IN  <<first>> \o Sorted(names \ {first})

EndsWith(s, suffix) ==
    Len(s) >= Len(suffix) /\ Drop(s, Len(s) - Len(suffix)) = suffix

\* seed_path.glob("*.md")
GlobMd(dir) == {name \in DOMAIN dir.files : EndsWith(name, <<".", "m", "d">>)}

\* f"## Source: {file.name}\n\n{content}"
SourceSection(name, content) ==
    <<"#", "#", " ", "S", "o", "u", "r", "c", "e", ":", " ">> \o name \o
    <<"\n", "\n">> \o content

SectionSeparator == <<"\n", "\n", "-", "-", "-", "\n", "\n">>

RECURSIVE Join(_, _)
\* sep.join(parts)
Join(sep, parts) ==
    IF parts = <<>> THEN <<>>
    ELSE IF Len(parts) = 1 THEN parts[1]
    ELSE parts[1] \o sep \o Join(sep, Tail(parts))

\* ProjectConfig.load_seed_data: ok is FALSE when it raises.
load_seed_data(dir) ==
    IF ~dir.exists
    THEN [ok |-> FALSE, raised |-> "FileNotFoundError", content |-> Empty]
    ELSE LET seed_files == Sorted(GlobMd(dir))
         IN  IF seed_files = <<>>
             THEN [ok |-> FALSE, raised |-> "ValueError", content |-> Empty]
             ELSE [ok |-> TRUE, raised |-> "",
                   content |-> Join(SectionSeparator,
                                    [k \in 1..Len(seed_files) |->
                                        SourceSection(seed_files[k],
                                                      dir.files[seed_files[k]])])]

\* A seed_data_dir that does not exist.
MissingDir == [exists |-> FALSE, files |-> <<>>]

\* The seed directories: missing, without Markdown file, with one, and with
\* several next to a file of another type.
SeedDirs ==
    { MissingDir,
      [exists |-> TRUE, files |-> (<<"c", ".", "t", "x", "t">> :> <<"t">>)],
      [exists |-> TRUE, files |-> (<<"a", ".", "m", "d">> :> <<"x">>)],
      [exists |-> TRUE,
       files |-> (<<"a", "b", ".", "m", "d">> :> <<"y">>) @@
                 (<<"a", ".", "m", "d">> :> <<"x">>) @@
                 (<<"B", ".", "m", "d">> :> <<"z">>) @@
                 (<<"c", ".", "t", "x", "t">> :> <<"t">>)] }

\* Kind names with a built-in prompt.
BuiltinKinds ==
    << <<"m", "e", "m", "o">>, <<"p", "o", "l", "i", "c", "y">>,
       <<"r", "e", "p", "o", "r", "t">>, <<"f", "a", "q">>,
       <<"e", "m", "a", "i", "l">> >>

\* A kind name without a built-in prompt.
CustomKind == <<"n", "o", "t", "e", "s">>

RECURSIVE Sum(_)
Sum(counts) == IF counts = <<>> THEN 0 ELSE Head(counts) + Sum(Tail(counts))

Min(a, b) == IF a <= b THEN a ELSE b

\* The repeat counts of the kinds of a configuration: count >= 1 each.
CountSeqs ==
    {counts \in UNION {[1..n -> 1..MaxDocs] : n \in 0..Min(MaxDocs, Len(BuiltinKinds))} :
        Sum(counts) <= MaxDocs}

\* The i-th kind of a configuration: the first kind names its prompt file, the
\* others rely on the built-in prompt of their name; kind `custom` (0: none)
\* has a name without built-in prompt and names no prompt file.
DocumentKind(i, count, custom) ==
    [name   |-> IF i = custom THEN CustomKind ELSE BuiltinKinds[i],
     prompt |-> IF i = 1 /\ custom # 1 THEN <<"p", ".", "y", "a", "m", "l">> ELSE Empty,
     count  |-> count]

Configs ==
    {[kinds   |-> [i \in 1..Len(counts) |-> DocumentKind(i, counts[i], custom)],
      seed    |-> dir] :
        counts \in CountSeqs, custom \in 0..MaxDocs, dir \in SeedDirs}

\* Files of the output directory before the run.
InitialDirs ==
    { {},
      {<<"a", "-", "b", ".", "d", "o", "c", "x">>},
      {<<"a", "-", "b", ".", "d", "o", "c", "x">>,
       <<"a", "-", "b", "-", "2", ".", "d", "o", "c", "x">>},
      {<<"m", "e", "m", "o", "_", "0", "0", "1", ".", "d", "o", "c", "x">>} }

\* What the content backend may return.
Markdowns ==
    { <<"#", " ", "A", " ", "b">>,       \* heading "A b"
      <<"x">>,                           \* no heading
      <<"#", " ", "?">> }                \* heading of unsafe characters only

\* What the short-title backend may return: nothing, or a title that reads
\* like the numbered name of the second document of kind "memo".
ShortTitles == { Empty, <<"m", "e", "m", "o", "_", "0", "0", "2">> }

\* The prompt file's instructions.
Instructions ==
    <<"{", "{", "k", "i", "n", "d", "_", "n", "a", "m", "e", "}", "}", " ", "#",
      "{", "{", "d", "o", "c", "u", "m", "e", "n", "t", "_", "n", "u", "m", "b",
      "e", "r", "}", "}">>

GoalsText == <<"-", " ", "a">>
StructureText ==
    <<"-", " ", "I", "n", "c", "l", "u", "d", "e", " ", "t", "a", "b", "l", "e", "s",
      ":", " ", "n", "o">>

NoContext ==
    [seed_content |-> Empty, goal |-> Empty, structure |-> Empty, kind_name |-> Empty,
     document_number |-> 0, previous_titles |-> Empty, additional_context |-> Empty]

DocxExt == <<".", "d", "o", "c", "x">>

OrchInit ==
    /\ config \in Configs
    /\ seed_content = Empty
    /\ \E dir \in InitialDirs : fs = [name \in dir |-> 0]
    /\ pc = "start"
    /\ kindIdx = 1
    /\ rep = 0
    /\ document_number = 0
    /\ generated_titles = <<>>
    /\ context = NoContext
    /\ markdown_content = Empty
    /\ title = Empty
    /\ base_name = Empty
    /\ output_path = Empty
    /\ prompts = <<>>
    /\ yielded = <<>>
    /\ inflight = 0
    /\ calls = [content |-> 0, short |-> 0]
    /\ steps = <<>>
    /\ raisedAt = 0
    /\ shortRaised = FALSE
    /\ error = ""

\* ---------------------------------------------------- orchestrator: actions
Range(f) == {f[k] : k \in DOMAIN f}

\* DocumentKind.get_prompt_path: FALSE stands for the ValueError.
PromptResolves(kind) == kind.prompt # Empty \/ kind.name \in Range(BuiltinKinds)

\* Mutant: the document index restarts with every kind.
NextDocumentNumberPerKind(n) == rep + 1

\* document_number += 1
NextDocumentNumber(n) == n + 1

\* PromptContext(...) of the current document.
PromptContext(kind, number, titles) ==
    [seed_content       |-> seed_content,
     goal               |-> GoalsText,
     structure          |-> StructureText,
     kind_name          |-> kind.name,
     document_number    |-> number,
     previous_titles    |-> titles,
     additional_context |-> Empty]

\* output_dir.mkdir(exist_ok=True); seed_content = config.load_seed_data()
LoadSeedData ==
    /\ pc = "start"
    /\ LET loaded == load_seed_data(config.seed)
       IN  IF loaded.ok
           THEN pc' = "next" /\ error' = error /\ seed_content' = loaded.content
           ELSE pc' = "raised" /\ error' = "seed" /\ seed_content' = seed_content
    /\ UNCHANGED <<config, fs, kindIdx, rep, document_number, generated_titles,
                   context, markdown_content, title, base_name, output_path,
                   prompts, yielded, inflight, calls, steps, raisedAt, shortRaised>>

\* The loop heads: the next (kind, i), or the end of the generator.
NextDocument ==
    /\ pc = "next"
    /\ IF kindIdx > Len(config.kinds)
       THEN /\ pc' = "done"
            /\ UNCHANGED <<document_number, context, steps, shortRaised>>
       ELSE /\ document_number' = NextDocumentNumber(document_number)
            /\ context' = PromptContext(config.kinds[kindIdx], document_number',
                                        generated_titles)
            /\ steps' = <<>>
            /\ shortRaised' = FALSE
            /\ pc' = "prompt"
    /\ UNCHANGED <<config, seed_content, fs, kindIdx, rep, generated_titles, markdown_content,
                   title, base_name, output_path, prompts, yielded, inflight,
                   calls, raisedAt, error>>

\* generate_content up to the await: get_prompt_path, load_prompt,
\* render_instructions, client.generate(rendered_prompt).
GenerateContentCall ==
    /\ pc = "prompt"
    /\ IF PromptResolves(config.kinds[kindIdx])
       THEN /\ prompts' = Append(prompts, render_instructions(Instructions, context))
            /\ steps' = steps \o <<"render", "generate">>
            /\ inflight' = inflight + 1
            /\ calls' = [calls EXCEPT !.content = @ + 1]
            /\ pc' = "awaitContent"
            /\ error' = error
       ELSE /\ pc' = "raised"
            /\ error' = "prompt"
            /\ UNCHANGED <<prompts, steps, inflight, calls>>
    /\ UNCHANGED <<config, seed_content, fs, kindIdx, rep, document_number, generated_titles,
                   context, markdown_content, title, base_name, output_path,
                   yielded, raisedAt, shortRaised>>

\* The content backend returns the generated Markdown.
GenerateContentReturn ==
    /\ pc = "awaitContent"
    /\ \E md \in Markdowns : markdown_content' = md
    /\ inflight' = inflight - 1
    /\ pc' = "convert"
    /\ UNCHANGED <<config, seed_content, fs, kindIdx, rep, document_number, generated_titles,
                   context, title, base_name, output_path, prompts, yielded,
                   calls, steps, raisedAt, shortRaised, error>>

\* Mutant: the failed call is caught and the document is tried again.
GenerateContentRaiseRetry ==
    /\ pc = "awaitContent"
    /\ inflight' = inflight - 1
    /\ raisedAt' = document_number
    /\ pc' = "prompt"
    /\ UNCHANGED <<config, seed_content, fs, kindIdx, rep, document_number, generated_titles,
                   context, markdown_content, title, base_name, output_path,
                   prompts, yielded, calls, steps, shortRaised, error>>

\* The content backend raises: nothing in generate_documents catches it.
GenerateContentRaise ==
    /\ pc = "awaitContent"
    /\ inflight' = inflight - 1
    /\ raisedAt' = document_number
    /\ pc' = "raised"
    /\ error' = "backend"
    /\ UNCHANGED <<config, seed_content, fs, kindIdx, rep, document_number, generated_titles,
                   context, markdown_content, title, base_name, output_path,
                   prompts, yielded, calls, steps, shortRaised>>

\* Mutant: the title is put in front of the earlier ones.
RecordTitleInFront(titles, t) ==
    IF t # Empty THEN <<t>> \o titles ELSE titles

\* if title: generated_titles.append(title)
RecordTitle(titles, t) ==
    IF t # Empty THEN Append(titles, t) ELSE titles

\* doc = convert_markdown_to_docx(...); title = _extract_title(...); the title
\* is recorded; then generate_short_title is awaited.
ConvertAndTitle ==
    /\ pc = "convert"
    /\ title' = _extract_title(markdown_content)
    /\ generated_titles' = RecordTitle(generated_titles, title')
    /\ steps' = Append(steps, "emit")
    /\ inflight' = inflight + 1
    /\ calls' = [calls EXCEPT !.short = @ + 1]
    /\ base_name' = Empty
    /\ pc' = "awaitShort"
    /\ UNCHANGED <<config, seed_content, fs, kindIdx, rep, document_number, context,
                   markdown_content, output_path, prompts, yielded, raisedAt,
                   shortRaised, error>>

\* base_name when generate_short_title returned short_title.
BaseNameOnReturn(short_title, t) ==
    IF short_title # Empty THEN _sanitize_filename(short_title)
    ELSE IF t # Empty THEN _sanitize_filename(t)
    ELSE Empty

\* Mutant: the except branch swallows the error and derives nothing.
BaseNameOnRaiseIgnored(t) == Empty

\* base_name when generate_short_title raised (the except branch).
BaseNameOnRaise(t) == IF t # Empty THEN _sanitize_filename(t) ELSE Empty

ShortTitleReturn ==
    /\ pc = "awaitShort"
    /\ \E short_title \in ShortTitles :
          base_name' = BaseNameOnReturn(short_title, title)
    /\ inflight' = inflight - 1
    /\ pc' = "name"
    /\ UNCHANGED <<config, seed_content, fs, kindIdx, rep, document_number, generated_titles,
                   context, markdown_content, title, output_path, prompts,
                   yielded, calls, steps, raisedAt, shortRaised, error>>

ShortTitleRaise ==
    /\ pc = "awaitShort"
    /\ base_name' = BaseNameOnRaise(title)
    /\ shortRaised' = TRUE
    /\ inflight' = inflight - 1
    /\ pc' = "name"
    /\ UNCHANGED <<config, seed_content, fs, kindIdx, rep, document_number, generated_titles,
                   context, markdown_content, title, output_path, prompts,
                   yielded, calls, steps, raisedAt, error>>

\* f"{base_name}.docx" for counter 1, f"{base_name}-{counter}.docx" after.
SlugFilename(base, counter) ==
    IF counter = 1 THEN base \o DocxExt
    ELSE base \o <<"-">> \o Str(counter) \o DocxExt

\* Mutant: "if" for "while": the suffix is bumped once, whatever exists.
FreeCounterOnce(base, counter, files) ==
    IF SlugFilename(base, counter) \in files THEN counter + 1 ELSE counter

RECURSIVE FreeCounter(_, _, _)
\* while output_path.exists(): counter += 1; ...
FreeCounter(base, counter, files) ==
    IF SlugFilename(base, counter) \in files
    THEN FreeCounter(base, counter + 1, files)
    ELSE counter

\* f"{kind.name}_{document_number:03d}.docx"
DefaultFilename(kind_name, number) ==
    kind_name \o <<"_">> \o Format03d(number) \o DocxExt

\* Lines 139-150: the path the document is saved to.
OutputPath(base, kind_name, number, files) ==
    IF base # Empty
    THEN SlugFilename(base, FreeCounter(base, 1, files))
    ELSE DefaultFilename(kind_name, number)

ResolveOutputPath ==
    /\ pc = "name"
    /\ output_path' = OutputPath(base_name, config.kinds[kindIdx].name,
                                 document_number, DOMAIN fs)
    /\ pc' = "save"
    /\ UNCHANGED <<config, seed_content, fs, kindIdx, rep, document_number, generated_titles,
                   context, markdown_content, title, base_name, prompts, yielded,
                   inflight, calls, steps, raisedAt, shortRaised, error>>

\* The directory after doc.save(path): the file is created or replaced.
Saved(files, path, number) ==
    [name \in DOMAIN files \cup {path} |-> IF name = path THEN number ELSE files[name]]

\* Mutant: the document is handed out before it is saved.
SaveDocumentDeferred ==
    /\ pc = "save"
    /\ pc' = "yield"
    /\ UNCHANGED <<config, seed_content, fs, kindIdx, rep, document_number, generated_titles,
                   context, markdown_content, title, base_name, output_path,
                   prompts, yielded, inflight, calls, steps, raisedAt,
                   shortRaised, error>>

SaveDocument ==
    /\ pc = "save"
    /\ fs' = Saved(fs, output_path, document_number)
    /\ steps' = Append(steps, "write")
    /\ pc' = "yield"
    /\ UNCHANGED <<config, seed_content, kindIdx, rep, document_number, generated_titles,
                   context, markdown_content, title, base_name, output_path,
                   prompts, yielded, inflight, calls, raisedAt, shortRaised, error>>

\* yield kind.name, output_path: the generator is suspended at the yield.
YieldDocument ==
    /\ pc = "yield"
    /\ yielded' = Append(yielded, <<config.kinds[kindIdx].name, output_path>>)
    /\ steps' = Append(steps, "yield")
    /\ pc' = "suspended"
    /\ UNCHANGED <<config, seed_content, fs, kindIdx, rep, document_number, generated_titles,
                   context, markdown_content, title, base_name, output_path,
                   prompts, inflight, calls, raisedAt, shortRaised, error>>

\* The consumer asks for the next item: the inner loop steps, and the outer
\* loop when range(kind.count) is exhausted.
Resume ==
    /\ pc = "suspended"
    /\ IF rep + 1 < config.kinds[kindIdx].count
       THEN rep' = rep + 1 /\ kindIdx' = kindIdx
       ELSE rep' = 0 /\ kindIdx' = kindIdx + 1
    /\ pc' = "next"
    /\ UNCHANGED <<config, seed_content, fs, document_number, generated_titles, context,
                   markdown_content, title, base_name, output_path, prompts,
                   yielded, inflight, calls, steps, raisedAt, shortRaised, error>>

OrchNext ==
    \/ LoadSeedData
    \/ NextDocument
    \/ GenerateContentCall
    \/ GenerateContentReturn
    \/ GenerateContentRaise
    \/ ConvertAndTitle
    \/ ShortTitleReturn
    \/ ShortTitleRaise
    \/ ResolveOutputPath
    \/ SaveDocument
    \/ YieldDocument
    \/ Resume

\* The orchestrator at rest, for the specifications of the other components.
OrchIdle ==
    /\ config = [kinds |-> <<>>, seed |-> MissingDir]
    /\ seed_content = Empty
    /\ fs = <<>>
    /\ pc = "idle"
    /\ kindIdx = 1
    /\ rep = 0
    /\ document_number = 0
    /\ generated_titles = <<>>
    /\ context = NoContext
    /\ markdown_content = Empty
    /\ title = Empty
    /\ base_name = Empty
    /\ output_path = Empty
    /\ prompts = <<>>
    /\ yielded = <<>>
    /\ inflight = 0
    /\ calls = [content |-> 0, short |-> 0]
    /\ steps = <<>>
    /\ raisedAt = 0
    /\ shortRaised = FALSE
    /\ error = ""

\* ---------------------------------------------- generator: render_instructions
VARIABLES
    instructions,      \* agent.instructions
    renderContext,     \* the PromptContext rendered
    rendered,          \* the local `rendered` of render_instructions
    renderKey          \* number of keys of `variables` the loop has been through

renderVars == <<instructions, renderContext, rendered, renderKey>>

\* Largest number of pieces a template is put together from.
MaxPieces == 2

KeyName == <<"n", "a", "m", "e">>
KeyUnknown == <<"u", "n", "k", "n", "o", "w", "n">>

TemplatePieces ==
    { Placeholder(KeySeedContent), Placeholder(KeyGoal), Placeholder(KeyName),
      Placeholder(KeyUnknown), <<"x">> }

HelloTemplate ==
    <<"H", "e", "l", "l", "o", " ", "{", "{", "n", "a", "m", "e", "}", "}", ",", " ",
      "{", "{", "u", "n", "k", "n", "o", "w", "n", "}", "}">>

\* The prompt templates rendered: the example of the specification and every
\* template of at most MaxPieces pieces.
Templates ==
    {HelloTemplate} \cup
    {Concat(ps) : ps \in UNION {[1..n -> TemplatePieces] : n \in 0..MaxPieces}}

\* The contexts rendered: values with and without placeholders in them, with
\* and without additional_context.
RenderContexts ==
    {[seed_content       |-> seed,
      goal               |-> goal,
      structure          |-> <<"T">>,
      kind_name          |-> BuiltinKinds[1],
      document_number    |-> 1,
      previous_titles    |-> Empty,
      additional_context |-> extra] :
        seed \in {<<"S">>, Placeholder(KeyGoal)},
        goal \in {<<"G">>, Empty},
        extra \in {Empty,
                   << <<KeyName, <<"W", "o", "r", "l", "d">> >> >>,
                   << <<KeyName, Placeholder(KeyUnknown)>> >>}}

RenderInit ==
    /\ instructions \in Templates
    /\ renderContext \in RenderContexts
    /\ rendered = instructions
    /\ renderKey = 0

RenderIdle ==
    /\ instructions = Empty
    /\ renderContext = NoContext
    /\ rendered = Empty
    /\ renderKey = 0

\* One turn of "for key, value in variables.items()".
RenderStep ==
    /\ renderKey < Len(Variables(renderContext))
    /\ LET item == Variables(renderContext)[renderKey + 1]
       IN  rendered' = ReplaceKey(rendered, item[1], item[2])
    /\ renderKey' = renderKey + 1
    /\ UNCHANGED <<instructions, renderContext>>

RenderDone == renderKey = Len(Variables(renderContext))

\* ------------------------------------------------------- converter: emitter
\* A token of the Markdown AST is a record with a "type" and, as the node
\* has them, "children", "raw" and "attrs".  The emitter state is
\* [doc, cur, err]: the blocks of self.doc, the index in doc of
\* self._current_paragraph (0: None), and whether an exception was raised.

\* token.get("children", [])
Children(token) == IF "children" \in DOMAIN token THEN token.children ELSE <<>>

\* token.get("raw", "")
Raw(token) == IF "raw" \in DOMAIN token THEN token.raw ELSE <<>>

\* token.get("attrs", {}).get("level", 1)
Level(token) ==
    IF "attrs" \in DOMAIN token /\ "level" \in DOMAIN token.attrs
    THEN token.attrs.level ELSE 1

\* token.get("attrs", {}).get("ordered", False)
Ordered(token) ==
    IF "attrs" \in DOMAIN token /\ "ordered" \in DOMAIN token.attrs
    THEN token.attrs.ordered ELSE FALSE

\* token.get("attrs", {}).get("url", "")
Url(token) ==
    IF "attrs" \in DOMAIN token /\ "url" \in DOMAIN token.attrs
    THEN token.attrs.url ELSE <<>>

\* Mutant: only the nodes of the list itself are read, not their descendants.
ExtractTextShallow(tokens) ==
    Concat([k \in 1..Len(tokens) |->
               IF tokens[k].type = "softbreak" THEN <<" ">>
               ELSE IF tokens[k].type = "linebreak" THEN <<"\n">>
               ELSE IF "raw" \in DOMAIN tokens[k] THEN tokens[k].raw
               ELSE <<>>])

RECURSIVE _extract_text(_)
_extract_text(tokens) ==
    IF tokens = <<>> THEN <<>>
    ELSE LET token == Head(tokens)
             part ==
                 IF token.type = "text" THEN Raw(token)
                 ELSE IF token.type = "codespan" THEN Raw(token)
                 ELSE IF token.type = "softbreak" THEN <<" ">>
                 ELSE IF token.type = "linebreak" THEN <<"\n">>
                 ELSE IF "children" \in DOMAIN token THEN _extract_text(token.children)
                 ELSE IF "raw" \in DOMAIN token THEN token.raw
                 ELSE <<>>
         IN  part \o _extract_text(Tail(tokens))

CodeFont == "Courier New"
CodePointSize == 10

\* paragraph.add_run(text) and the style flags set on the run.
Run(text) ==
    [text |-> text, bold |-> FALSE, italic |-> FALSE, strike |-> FALSE,
     font |-> "", size |-> 0]

BoldRun(text) == [Run(text) EXCEPT !.bold = TRUE]
ItalicRun(text) == [Run(text) EXCEPT !.italic = TRUE]
StrikeRun(text) == [Run(text) EXCEPT !.strike = TRUE]
CodeRun(text) == [Run(text) EXCEPT !.font = CodeFont, !.size = CodePointSize]

\* doc.add_paragraph(text, style): a run is added only for a non-empty text.
Paragraph(text, style) ==
    [kind |-> "paragraph", style |-> style,
     runs |-> IF text = <<>> THEN <<>> ELSE <<Run(text)>>,
     indent |-> 0, align |-> ""]

\* EmitterInit: DocxEmitter.__init__
NewEmitter == [doc |-> <<>>, cur |-> 0, err |-> FALSE]

\* Mutant: the cursor is left where it is.
FinishParagraphKeepsCursor(st) == st

_finish_paragraph(st) == [st EXCEPT !.cur = 0]

_ensure_paragraph(st) ==
    IF st.cur = 0
    THEN [st EXCEPT !.doc = Append(st.doc, Paragraph(<<>>, "Normal")),
                    !.cur = Len(st.doc) + 1]
    ELSE st

\* doc.add_...(block)
AddBlock(st, block) == [st EXCEPT !.doc = Append(st.doc, block)]

\* Mutant: a run styled like the last run of the paragraph is merged into it.
AddRunMerging(st, p, run) ==
    LET runs == st.doc[p].runs
        n    == Len(runs)
    IN  IF n > 0 /\ [runs[n] EXCEPT !.text = <<>>] = [run EXCEPT !.text = <<>>]
        THEN [st EXCEPT !.doc[p].runs[n].text = @ \o run.text]
        ELSE [st EXCEPT !.doc[p].runs = Append(@, run)]

\* paragraph.add_run(...) on the paragraph at index p of the document
AddRun(st, p, run) == [st EXCEPT !.doc[p].runs = Append(@, run)]

RECURSIVE _emit_inline(_, _, _)
_emit_inline(st, tokens, p) ==
    IF tokens = <<>> THEN st
    ELSE LET token == Head(tokens)
             next ==
                 IF token.type = "text" THEN AddRun(st, p, Run(Raw(token)))
                 ELSE IF token.type = "strong"
                      THEN AddRun(st, p, BoldRun(_extract_text(Children(token))))
                 ELSE IF token.type = "emphasis"
                      THEN AddRun(st, p, ItalicRun(_extract_text(Children(token))))
                 ELSE IF token.type = "codespan" THEN AddRun(st, p, CodeRun(Raw(token)))
                 ELSE IF token.type = "link"
                      THEN AddRun(st, p, Run(_extract_text(Children(token)) \o
                                             <<" ", "(">> \o Url(token) \o <<")">>))
                 ELSE IF token.type = "strikethrough"
                      THEN AddRun(st, p, StrikeRun(_extract_text(Children(token))))
                 ELSE IF token.type = "linebreak" THEN AddRun(st, p, Run(<<"\n">>))
                 ELSE IF token.type = "softbreak" THEN AddRun(st, p, Run(<<" ">>))
                 ELSE IF "children" \in DOMAIN token
                      THEN _emit_inline(st, token.children, p)
                 ELSE st
         IN  _emit_inline(next, Tail(tokens), p)

\* Mutant: a blank line leaves an empty paragraph in the document.
BlankLineAsParagraph(st, token) == AddBlock(st, Paragraph(<<>>, "Normal"))

_emit_blank_line(st, token) == st

_emit_paragraph(st, token) ==
    LET opened == _ensure_paragraph(_finish_paragraph(st))
    IN  _finish_paragraph(_emit_inline(opened, Children(token), opened.cur))

\* The heading levels doc.add_heading accepts; any other raises ValueError.
MaxHeadingLevel == 9

_emit_heading(st, token) ==
    LET closed == _finish_paragraph(st)
        level  == Level(token)
        text   == _extract_text(Children(token))
    IN  IF level \notin 0..MaxHeadingLevel
        THEN [closed EXCEPT !.err = TRUE]
        ELSE _finish_paragraph(
                 AddBlock(closed, [kind |-> "heading", level |-> level, text |-> text]))

_emit_block_code(st, token) ==
    _finish_paragraph(
        AddBlock(_finish_paragraph(st),
                 [Paragraph(<<>>, "No Spacing") EXCEPT !.runs = <<CodeRun(Raw(token))>>]))

\* Inches(0.5), in tenths of an inch
QuoteIndent == 5

_emit_block_quote(st, token) ==
    _finish_paragraph(
        AddBlock(_finish_paragraph(st),
                 [Paragraph(_extract_text(Children(token)), "Normal")
                      EXCEPT !.indent = QuoteIndent]))

RuleWidth == 50

\* The box-drawing dash U+2500 of the rule, written in ASCII here.
RuleGlyph == "-"

_emit_thematic_break(st, token) ==
    _finish_paragraph(
        AddBlock(_finish_paragraph(st),
                 [Paragraph([k \in 1..RuleWidth |-> RuleGlyph], "Normal")
                      EXCEPT !.align = "center"]))

RECURSIVE EmitListItems(_, _, _)
\* for child in token.get("children", []): ...
EmitListItems(st, children, style) ==
    IF children = <<>> THEN st
    ELSE LET child == Head(children)
             next == IF child.type = "list_item"
                     THEN AddBlock(st, Paragraph(_extract_text(Children(child)), style))
                     ELSE st
         IN  EmitListItems(next, Tail(children), style)

_emit_list(st, token) ==
    LET style == IF Ordered(token) THEN "List Number" ELSE "List Bullet"
    IN  _finish_paragraph(EmitListItems(_finish_paragraph(st), Children(token), style))

\* The texts of the table_cell children of a head or of a row.
CellTexts(cells) ==
    LET kept == SelectSeq(cells, LAMBDA cell : cell.type = "table_cell")
    IN  [k \in 1..Len(kept) |-> _extract_text(Children(kept[k]))]

RECURSIVE BodyRows(_)
\* The non-empty rows of the table_row children of a table_body.
BodyRows(children) ==
    IF children = <<>> THEN <<>>
    ELSE LET row == Head(children)
             row_data == CellTexts(Children(row))
         IN  (IF row.type = "table_row" /\ row_data # <<>> THEN <<row_data>> ELSE <<>>)
             \o BodyRows(Tail(children))

RECURSIVE TableRows(_)
\* Lines 104-127: the rows reconstructed from the children of a table.
TableRows(children) ==
    IF children = <<>> THEN <<>>
    ELSE LET child == Head(children)
             header_row == CellTexts(Children(child))
             here ==
                 IF child.type = "table_head"
                 THEN (IF header_row # <<>> THEN <<header_row>> ELSE <<>>)
                 ELSE IF child.type = "table_body" THEN BodyRows(Children(child))
                 ELSE <<>>
         IN  here \o TableRows(Tail(children))

\* Mutant: the table is as wide as its first row.
NumColsOfFirstRow(rows) == IF rows # <<>> THEN Len(rows[1]) ELSE 0

\* max(len(row) for row in rows) if rows else 0
NumCols(rows) ==
    IF rows # <<>> THEN SetMax({Len(rows[k]) : k \in 1..Len(rows)}) ELSE 0

HeaderFill == "D9E2F3"

\* Lines 139-161: the grid of doc.add_table(num_rows, num_cols) once filled;
\* `set` tells the cells whose text was assigned.
TableBlock(rows, num_rows, num_cols) ==
    [kind  |-> "table",
     style |-> "Table Grid",
     rows  |-> num_rows,
     cols  |-> num_cols,
     cells |-> [r \in 1..num_rows |-> [c \in 1..num_cols |->
                  IF c <= Len(rows[r]) /\ c - 1 < num_cols
                  THEN [text |-> Strip(rows[r][c], Whitespace), set |-> TRUE,
                        bold |-> (r = 1),
                        fill |-> IF r = 1 THEN HeaderFill ELSE ""]
                  ELSE [text |-> <<>>, set |-> FALSE, bold |-> FALSE,
                        fill |-> IF r = 1 THEN HeaderFill ELSE ""]]]]

_emit_table(st, token) ==
    LET closed   == _finish_paragraph(st)
        rows     == TableRows(Children(token))
        num_rows == Len(rows)
        num_cols == NumCols(rows)
    IN  IF rows = <<>> THEN closed
        ELSE IF num_cols = 0 THEN closed
        ELSE _finish_paragraph(AddBlock(closed, TableBlock(rows, num_rows, num_cols)))

RECURSIVE emit(_, _)
RECURSIVE _emit_token(_, _)

\* Mutant: a kind without handler is an error.
FallbackStrict(st, token) == [st EXCEPT !.err = TRUE]

\* Lines 41-43: no handler; the children, if any, are processed as blocks.
Fallback(st, token) ==
    IF "children" \in DOMAIN token THEN emit(st, token.children) ELSE st

\* token.get("type", "")
TypeOf(token) == IF "type" \in DOMAIN token THEN token.type ELSE ""

\* getattr(self, f"_emit_{token_type}", None) finds these two methods too:
\* _emit_token calls itself without end (RecursionError) and _emit_inline
\* lacks its second argument (TypeError).
RaisingKinds == {"token", "inline"}

_emit_token(st, token) ==
    LET token_type == TypeOf(token)
    IN  IF token_type = "blank_line" THEN _emit_blank_line(st, token)
        ELSE IF token_type = "paragraph" THEN _emit_paragraph(st, token)
        ELSE IF token_type = "heading" THEN _emit_heading(st, token)
        ELSE IF token_type = "block_code" THEN _emit_block_code(st, token)
        ELSE IF token_type = "block_quote" THEN _emit_block_quote(st, token)
        ELSE IF token_type = "thematic_break" THEN _emit_thematic_break(st, token)
        ELSE IF token_type = "list" THEN _emit_list(st, token)
        ELSE IF token_type = "table" THEN _emit_table(st, token)
        ELSE IF token_type \in RaisingKinds THEN [st EXCEPT !.err = TRUE]
        ELSE Fallback(st, token)

\* for token in tokens: self._emit_token(token); an exception ends the loop.
emit(st, tokens) ==
    IF tokens = <<>> \/ st.err THEN st
    ELSE emit(_emit_token(st, Head(tokens)), Tail(tokens))

\* --------------------------------------------------- converter: emitter run
VARIABLES
    tokens,            \* the AST handed to emit
    emitPos,           \* number of top-level tokens emit has been through
    emitter            \* the DocxEmitter: [doc, cur, err]

emitVars == <<tokens, emitPos, emitter>>

\* Largest number of top-level tokens of an AST.
MaxTokens == 2
\* Largest number of cells of a table head or row.
MaxCols == 2
\* Largest number of rows of a table body.
MaxRows == 2

Text(raw) == [type |-> "text", raw |-> raw]

Cell(raw) == [type |-> "table_cell", children |-> <<Text(raw)>>]

\* Header cell c reads "hc"; body cell (r, c) reads " rc " with the blanks.
HeadCells(n) == [c \in 1..n |-> Cell(<<"h", Digit(c)>>)]
RowCells(r, n) == [c \in 1..n |-> Cell(<<" ", Digit(r), Digit(c), " ">>)]

TableHead(n) == [type |-> "table_head", children |-> HeadCells(n)]

TableBody(widths) ==
    [type     |-> "table_body",
     children |-> [r \in 1..Len(widths) |->
                      [type |-> "table_row", children |-> RowCells(r, widths[r])]]]

\* Cell counts of the rows of a body.
BodyWidths == UNION {[1..m -> 0..MaxCols] : m \in 0..MaxRows}

\* Tables as the parser builds them (head, then body), and the malformed
\* ones: no head, no body, body before head, no children at all.
Tables ==
    {[type |-> "table", children |-> <<TableHead(n), TableBody(w)>>] :
        n \in 0..MaxCols, w \in BodyWidths}
    \cup {[type |-> "table", children |-> <<TableBody(w)>>] : w \in BodyWidths}
    \cup {[type |-> "table", children |-> <<TableHead(n)>>] : n \in 0..MaxCols}
    \cup {[type |-> "table", children |-> <<TableBody(<<1>>), TableHead(1)>>],
          [type |-> "table", children |-> <<>>],
          [type |-> "table"]}

Para ==
    [type |-> "paragraph",
     children |-> <<Text(<<"a">>), [type |-> "strong", children |-> <<Text(<<"b">>)>>]>>]

\* Blocks of the kinds the emitter handles, well-formed.
KnownBlocks ==
    { Para,
      [type |-> "heading", attrs |-> [level |-> 1], children |-> <<Text(<<"t">>)>>],
      [type |-> "heading", attrs |-> [level |-> 6],
       children |-> <<[type |-> "emphasis", children |-> <<Text(<<"e">>)>>]>>],
      [type |-> "block_code", raw |-> <<"c", "\n">>],
      [type |-> "block_quote",
       children |-> <<[type |-> "paragraph", children |-> <<Text(<<"q">>)>>]>>],
      [type |-> "thematic_break"],
      [type |-> "list", attrs |-> [ordered |-> TRUE],
       children |-> <<[type |-> "list_item",
                       children |-> <<[type |-> "block_text",
                                       children |-> <<Text(<<"i">>)>>]>>]>>],
      [type |-> "blank_line"],
      [type |-> "table", children |-> <<TableHead(2), TableBody(<<2>>)>>] }

\* Kinds without a handler: containers of blocks and of inline nodes, a leaf,
\* and inline nodes in block position.
UnknownBlocks ==
    { [type |-> "custom",
       children |-> <<[type |-> "paragraph", children |-> <<Text(<<"k">>)>>]>>],
      [type |-> "custom", children |-> <<Text(<<"u">>)>>],
      [type |-> "block_html", raw |-> <<"<", "b", ">">>],
      Text(<<"z">>) }

\* Trees the parser does not build: a heading level add_heading refuses, and
\* a kind named like a method that is no block handler.
IllFormedBlocks ==
    { [type |-> "heading", attrs |-> [level |-> 10], children |-> <<Text(<<"t">>)>>],
      [type |-> "inline", children |-> <<Text(<<"n">>)>>] }

Blocks == KnownBlocks \cup UnknownBlocks \cup IllFormedBlocks

\* The ASTs emitted: every list of at most MaxTokens blocks, and every table
\* alone and after a paragraph.
Asts ==
    UNION {[1..n -> Blocks] : n \in 0..MaxTokens}
    \cup {<<t>> : t \in Tables}
    \cup {<<Para, t>> : t \in Tables}

EmitInit ==
    /\ tokens \in Asts
    /\ emitPos = 0
    /\ emitter = NewEmitter

EmitIdle ==
    /\ tokens = <<>>
    /\ emitPos = 0
    /\ emitter = NewEmitter

\* One turn of the loop of emit over the top-level tokens.
EmitStep ==
    /\ emitPos < Len(tokens)
    /\ ~emitter.err
    /\ emitter' = _emit_token(emitter, tokens[emitPos + 1])
    /\ emitPos' = emitPos + 1
    /\ UNCHANGED tokens

EmitDone == emitPos = Len(tokens) \/ emitter.err

\* ------------------------------------------------ emitter run: headings
MaxInline == 3

\* Inline nodes that carry text.
InlineLeaves ==
    { Text(<<"a">>), Text(<<"b">>), [type |-> "softbreak"], [type |-> "linebreak"],
      [type |-> "codespan", raw |-> <<"c">>] }

StyleKinds == {"strong", "emphasis", "strikethrough", "link"}

StyleNode(kind, children) ==
    IF kind = "link"
    THEN [type |-> kind, attrs |-> [url |-> <<"u">>], children |-> children]
    ELSE [type |-> kind, children |-> children]

\* nodes with its elements i..j as the children of one node of a style kind
Wrapped(nodes, i, j, kind) ==
    SubSeq(nodes, 1, i - 1) \o <<StyleNode(kind, SubSeq(nodes, i, j))>> \o
    SubSeq(nodes, j + 1, Len(nodes))

\* Every way of wrapping a part of nodes in one style node.
WrappedOnce(nodes) ==
    UNION {{Wrapped(nodes, i, j, kind) : j \in i..Len(nodes), kind \in StyleKinds} :
              i \in 1..Len(nodes)}

PlainInlines == UNION {[1..n -> InlineLeaves] : n \in 0..MaxInline}

\* The children of '**bold** and *italic*'.
BoldAndItalic ==
    << StyleNode("strong", <<Text(<<"b", "o", "l", "d">>)>>),
       Text(<<" ", "a", "n", "d", " ">>),
       StyleNode("emphasis", <<Text(<<"i", "t", "a", "l", "i", "c">>)>>) >>

\* Inline content: the example, every list of at most MaxInline leaves, and
\* these lists with any part of them wrapped once or twice in a style node.
Inlines ==
    {BoldAndItalic} \cup PlainInlines \cup
    UNION {WrappedOnce(nodes) : nodes \in PlainInlines} \cup
    {<<StyleNode(outer, <<Text(<<"a">>), StyleNode(inner, <<Text(<<"b">>)>>)>>)>> :
        outer \in StyleKinds, inner \in StyleKinds}

Heading(level, children) ==
    [type |-> "heading", attrs |-> [level |-> level], children |-> children]

\* One heading of level 1 or 2 over inline content.
HeadingInit ==
    /\ \E children \in Inlines, level \in 1..2 :
          tokens = <<Heading(level, children)>>
    /\ emitPos = 0
    /\ emitter = NewEmitter

\* ---------------------------------------- emitter run: plain paragraphs
MaxPlainTokens == 4

\* What the parser makes of plain text: paragraphs of text, of several lines
\* (text, soft break, text), and the blank lines between them.
PlainBlocks ==
    { [type |-> "paragraph", children |-> <<Text(<<"a">>)>>],
      [type |-> "paragraph", children |-> <<Text(<<"b">>)>>],
      [type |-> "paragraph",
       children |-> <<Text(<<"a">>), [type |-> "softbreak"], Text(<<"b">>)>>],
      [type |-> "blank_line"] }

PlainInit ==
    /\ tokens \in UNION {[1..n -> PlainBlocks] : n \in 0..MaxPlainTokens}
    /\ emitPos = 0
    /\ emitter = NewEmitter

\* ------------------------------------------- emitter run: inline content
\* The children of 'Some **bold** text.'.
SomeBoldText ==
    << Text(<<"S", "o", "m", "e", " ">>),
       StyleNode("strong", <<Text(<<"b", "o", "l", "d">>)>>),
       Text(<<" ", "t", "e", "x", "t", ".">>) >>

\* Inline kinds _emit_inline has no branch for: one with children, one without.
Image(children) ==
    [type |-> "image", attrs |-> [url |-> <<"u">>], children |-> children]

InlineHtml == [type |-> "inline_html", raw |-> <<"<", "i", ">">>]

\* The children of a paragraph: the example, the inline content of the
\* headings, and lists with nodes of a kind without a branch among them.
ParagraphInlines ==
    {SomeBoldText} \cup Inlines \cup
    {<<Image(nodes), Text(<<"b">>)>> : nodes \in PlainInlines} \cup
    {<<Text(<<"a">>), InlineHtml, Image(<<StyleNode(kind, <<Text(<<"b">>)>>)>>)>> :
        kind \in StyleKinds}

\* One paragraph over inline content.
InlineInit ==
    /\ \E children \in ParagraphInlines :
          tokens = <<[type |-> "paragraph", children |-> children]>>
    /\ emitPos = 0
    /\ emitter = NewEmitter

\* ------------------------------------------ orchestrator: _sanitize_filename
VARIABLES
    sanTitle,          \* the argument `title`
    filename,          \* the local `filename`
    sanPc              \* position of _sanitize_filename

sanVars == <<sanTitle, filename, sanPc>>

MaxTitlePieces == 3

\* The title of the specification's example.
ExampleTitle ==
    <<"Q", "3", " ", "R", "e", "p", "o", "r", "t", ":", " ", "S", "a", "l", "e", "s", " ", "&", " ", "O", "p", "s", "!", "!">>

\* n times the letter b
LetterRun(n) == [k \in 1..n |-> "b"]

\* Titles longer than the limit: without dash, with a dash or a space before
\* the limit, with a dash at the limit, and with an upper-case letter.
LongTitles ==
    { LetterRun(MaxFilenameLen + 1),
      LetterRun(MaxFilenameLen - 1) \o <<"-", "c", "c">>,
      LetterRun(MaxFilenameLen) \o <<"-", "c">>,
      LetterRun(60) \o <<" ">> \o LetterRun(60),
      <<"A", "_", "?">> \o LetterRun(MaxFilenameLen),
      LetterRun(MaxFilenameLen) }

TitlePieces == {"A", "b", " ", "_", "-", "?", "!", "\t"}

\* The titles sanitized: the example, the long ones, and every title of at
\* most MaxTitlePieces characters.
Titles ==
    {ExampleTitle} \cup LongTitles \cup
    UNION {[1..n -> TitlePieces] : n \in 0..MaxTitlePieces}

SanInit ==
    /\ sanTitle \in Titles
    /\ filename = Empty
    /\ sanPc = "remove"

SanIdle ==
    /\ sanTitle = Empty
    /\ filename = Empty
    /\ sanPc = "idle"

\* Line 44
RemoveUnsafe ==
    /\ sanPc = "remove"
    /\ filename' = RemoveChars(sanTitle, UnsafeChars)
    /\ sanPc' = "dash"
    /\ UNCHANGED sanTitle

\* Line 46
DashWhitespace ==
    /\ sanPc = "dash"
    /\ filename' = CollapseRuns(filename, Whitespace \cup {"_"}, "-")
    /\ sanPc' = "collapse"
    /\ UNCHANGED sanTitle

\* Line 47
CollapseDashes ==
    /\ sanPc = "collapse"
    /\ filename' = CollapseRuns(filename, {"-"}, "-")
    /\ sanPc' = "strip"
    /\ UNCHANGED sanTitle

\* Line 49
StripDashes ==
    /\ sanPc = "strip"
    /\ filename' = Strip(filename, {"-"})
    /\ sanPc' = "limit"
    /\ UNCHANGED sanTitle

\* Lines 51-52
LimitLength ==
    /\ sanPc = "limit"
    /\ filename' = TruncateAtDash(filename)
    /\ sanPc' = "lower"
    /\ UNCHANGED sanTitle

\* Line 53
ReturnLower ==
    /\ sanPc = "lower"
    /\ filename' = Lower(filename)
    /\ sanPc' = "done"
    /\ UNCHANGED sanTitle

SanStep ==
    \/ RemoveUnsafe
    \/ DashWhitespace
    \/ CollapseDashes
    \/ StripDashes
    \/ LimitLength
    \/ ReturnLower

\* ------------------------------------------------------ cli: cmd_generate
VARIABLES
    args,              \* [exists: the project file exists, quiet: -q was given]
    cliPc,             \* position of cmd_generate
    results,           \* the local `results`
    stdout,            \* lines printed on the output stream
    stderr,            \* messages printed on the error stream
    exit_code          \* exit code of the process (-1: it has not ended)

cliVars == <<args, cliPc, results, stdout, stderr, exit_code>>

\* What calling the coroutine function run_project returns: a coroutine
\* object; no statement of run_project has run.
Coroutine == "coroutine"

CliInit ==
    /\ args \in [exists : BOOLEAN, quiet : BOOLEAN]
    /\ cliPc = "check"
    /\ results = "none"
    /\ stdout = <<>>
    /\ stderr = <<>>
    /\ exit_code = -1

CliIdle ==
    /\ args = [exists |-> FALSE, quiet |-> FALSE]
    /\ cliPc = "idle"
    /\ results = "none"
    /\ stdout = <<>>
    /\ stderr = <<>>
    /\ exit_code = -1

\* Lines 70-74: a project file that does not exist ends the command.
CheckProjectPath ==
    /\ cliPc = "check"
    /\ IF args.exists
       THEN /\ cliPc' = "run"
            /\ UNCHANGED <<stderr, exit_code>>
       ELSE /\ stderr' = Append(stderr, "not found")
            /\ exit_code' = 1
            /\ cliPc' = "exited"
    /\ UNCHANGED <<args, results, stdout>>

\* Line 77: results = run_project(project_path, verbose=not args.quiet), with
\* no await and no event loop.
CallRunProject ==
    /\ cliPc = "run"
    /\ results' = Coroutine
    /\ cliPc' = "print"
    /\ UNCHANGED <<args, stdout, stderr, exit_code>>

\* Lines 78-80: in quiet mode the paths of results are printed: iterating a
\* coroutine object raises TypeError; otherwise the try block is left.
PrintPaths ==
    /\ cliPc = "print"
    /\ cliPc' = IF args.quiet THEN "except" ELSE "return"
    /\ UNCHANGED <<args, results, stdout, stderr, exit_code>>

\* Lines 81-83: except Exception: the message goes to the error stream and the
\* process exits with code 1.
HandleError ==
    /\ cliPc = "except"
    /\ stderr' = Append(stderr, "error")
    /\ exit_code' = 1
    /\ cliPc' = "exited"
    /\ UNCHANGED <<args, results, stdout>>

\* cmd_generate and main return: the process exits with code 0.
ReturnFromMain ==
    /\ cliPc = "return"
    /\ exit_code' = 0
    /\ cliPc' = "exited"
    /\ UNCHANGED <<args, results, stdout, stderr>>

CliStep ==
    \/ CheckProjectPath
    \/ CallRunProject
    \/ PrintPaths
    \/ HandleError
    \/ ReturnFromMain

\* --------------------------------------------------------------- specifications
vars == <<orchVars, renderVars, emitVars, cliVars, sanVars>>

Init == OrchInit /\ RenderIdle /\ EmitIdle /\ CliIdle /\ SanIdle

Next == OrchNext /\ UNCHANGED <<renderVars, emitVars, cliVars, sanVars>>

Spec == Init /\ [][Next]_vars

RenderNext == RenderStep /\ UNCHANGED <<orchVars, emitVars, cliVars, sanVars>>

InitRender == OrchIdle /\ RenderInit /\ EmitIdle /\ CliIdle /\ SanIdle

SpecRender == InitRender /\ [][RenderNext]_vars

EmitNext == EmitStep /\ UNCHANGED <<orchVars, renderVars, cliVars, sanVars>>

InitEmit == OrchIdle /\ RenderIdle /\ EmitInit /\ CliIdle /\ SanIdle

SpecEmit == InitEmit /\ [][EmitNext]_vars

\* The command line: the project the file describes is in its initial state,
\* and stays there unless the command runs the orchestration.
CliNext == CliStep /\ UNCHANGED <<orchVars, renderVars, emitVars, sanVars>>

InitCli == OrchInit /\ RenderIdle /\ EmitIdle /\ CliInit /\ SanIdle

SpecCli == InitCli /\ [][CliNext]_vars

SanNext == SanStep /\ UNCHANGED <<orchVars, renderVars, emitVars, cliVars>>

InitSan == OrchIdle /\ RenderIdle /\ EmitIdle /\ CliIdle /\ SanInit

SpecSanitize == InitSan /\ [][SanNext]_vars

InitHeading == OrchIdle /\ RenderIdle /\ HeadingInit /\ CliIdle /\ SanIdle

SpecHeading == InitHeading /\ [][EmitNext]_vars

InitPlain == OrchIdle /\ RenderIdle /\ PlainInit /\ CliIdle /\ SanIdle

SpecPlain == InitPlain /\ [][EmitNext]_vars

InitInline == OrchIdle /\ RenderIdle /\ InlineInit /\ CliIdle /\ SanIdle

SpecInline == InitInline /\ [][EmitNext]_vars

\* ------------------------------------------------- orchestrator: properties
RECURSIVE ExpandKinds(_)
\* The kind names of the documents a configuration asks for, in order.
ExpandKinds(kinds) ==
    IF kinds = <<>> THEN <<>>
    ELSE [j \in 1..Head(kinds).count |-> Head(kinds).name] \o ExpandKinds(Tail(kinds))

ExpectedKinds == ExpandKinds(config.kinds)

\* Files of the output directory written by this run.
WrittenBy(n) == {name \in DOMAIN fs : fs[name] = n}

\* C1: documents are generated in declared kind order and repetition order;
\* the k-th document is rendered with document index k (the prompt shows the
\* kind name and the decimal k); on normal completion exactly sum(count)
\* (kind name, path) pairs have been yielded.
C1_OrderAndIndex ==
    /\ Len(prompts) <= Len(ExpectedKinds)
    /\ \A k \in 1..Len(prompts) :
          prompts[k] = ExpectedKinds[k] \o <<" ", "#">> \o Str(k)
    /\ Len(yielded) <= Len(prompts)
    /\ \A k \in 1..Len(yielded) :
          /\ yielded[k][1] = ExpectedKinds[k]
          /\ fs[yielded[k][2]] = k
    /\ pc \in {"prompt", "awaitContent", "convert", "awaitShort", "name", "save", "yield"} =>
          /\ context.document_number = Len(yielded) + 1
          /\ context.kind_name = ExpectedKinds[Len(yielded) + 1]
    /\ pc = "done" =>
          /\ Len(yielded) = Sum([k \in 1..Len(config.kinds) |-> config.kinds[k].count])
          /\ Len(prompts) = Len(yielded)

\* Counts 2 and 1: three outputs, indices 1, 2, 3.
C1_Witness ==
    /\ pc = "done"
    /\ Len(config.kinds) = 2
    /\ config.kinds[1].count = 2
    /\ config.kinds[2].count = 1
    /\ Len(yielded) = 3
    /\ prompts[3] = BuiltinKinds[2] \o <<" ", "#", "3">>

DocumentSteps == <<"render", "generate", "emit", "write", "yield">>

\* C2: generation is strictly sequential: the steps of a document occur in the
\* order render, generate, emit, write, yield; the content call of document
\* n+1 starts only after document n has been written and yielded; at most one
\* backend call is in flight.
C2_Sequential ==
    /\ inflight \in {0, 1}
    /\ Len(steps) <= Len(DocumentSteps)
    /\ steps = SubSeq(DocumentSteps, 1, Len(steps))
    /\ pc = "suspended" => steps = DocumentSteps
    /\ calls.content <= Len(yielded) + 1
    /\ \A n \in 1..(calls.content - 1) :
          /\ n <= Len(yielded)
          /\ WrittenBy(n) = {yielded[n][2]}
    /\ inflight = 1 => pc \in {"awaitContent", "awaitShort"}

\* The content call of the second document is in flight after the first was
\* written and yielded.
C2_Witness ==
    /\ pc = "awaitContent"
    /\ inflight = 1
    /\ calls.content = 2
    /\ Len(yielded) = 1

\* The name the slug policy must choose among the files present.
ExpectedSlugName(base, files) ==
    IF base \o DocxExt \notin files THEN base \o DocxExt
    ELSE LET k == SetMin({j \in 2..(Cardinality(files) + 2) :
                            base \o <<"-">> \o Str(j) \o DocxExt \notin files})
         IN  base \o <<"-">> \o Str(k) \o DocxExt

\* C3: under the slug naming policy the save never replaces an existing file:
\* the path is '<slug>.docx' when free, else '<slug>-k.docx' for the smallest
\* k >= 2 that is free, and every file present before is left as it was.
C3_NoOverwrite ==
    [][(pc = "save" /\ base_name # Empty) =>
          /\ output_path \notin DOMAIN fs
          /\ output_path = ExpectedSlugName(base_name, DOMAIN fs)
          /\ DOMAIN fs' = DOMAIN fs \cup {output_path}
          /\ fs'[output_path] = document_number
          /\ \A name \in DOMAIN fs : fs'[name] = fs[name]]_vars

\* '<slug>.docx' and '<slug>-2.docx' exist: the document went to '<slug>-3.docx'.
C3_Witness ==
    /\ pc = "yield"
    /\ base_name = <<"a", "-", "b">>
    /\ output_path = <<"a", "-", "b", "-", "3", ".", "d", "o", "c", "x">>
    /\ fs[output_path] = document_number
    /\ fs[<<"a", "-", "b", ".", "d", "o", "c", "x">>] = 0
    /\ fs[<<"a", "-", "b", "-", "2", ".", "d", "o", "c", "x">>] = 0

\* C4: when the content backend raises for document n, the call is not
\* retried, no further backend call is made, the error propagates, the files
\* of documents 1..n-1 are present and unchanged and document n has no file.
C4_BackendError ==
    raisedAt # 0 =>
        /\ pc = "raised"
        /\ error = "backend"
        /\ ~ENABLED Next
        /\ inflight = 0
        /\ calls.content = raisedAt
        /\ calls.short = raisedAt - 1
        /\ Len(yielded) = raisedAt - 1
        /\ \A n \in 1..(raisedAt - 1) : WrittenBy(n) = {yielded[n][2]}
        /\ \A name \in DOMAIN fs : fs[name] < raisedAt

\* The backend raised for the second document; the first one is on disk.
C4_Witness ==
    /\ raisedAt = 2
    /\ pc = "raised"
    /\ Len(yielded) = 1
    /\ WrittenBy(1) # {}

\* The file names derived from a title: its slug, with or without suffix.
SlugNames(t) ==
    {_sanitize_filename(t) \o DocxExt} \cup
    {_sanitize_filename(t) \o <<"-">> \o Str(k) \o DocxExt : k \in 2..(Cardinality(DOMAIN fs) + 2)}

NumberedName ==
    ExpectedKinds[document_number] \o <<"_">> \o ZeroPad(Str(document_number), 3) \o DocxExt

\* The part of C5 that does not depend on the name: a failure of the
\* short-title backend does not propagate, and the document is still written
\* and yielded.
ShortFailureRecovered ==
    shortRaised =>
        /\ pc \in {"name", "save", "yield", "suspended", "next", "done"}
        /\ error = ""
        /\ pc \in {"name", "save", "yield", "suspended"} => ENABLED Next
        /\ pc \in {"suspended", "next", "done"} =>
              /\ yielded[Len(yielded)] = <<ExpectedKinds[document_number], output_path>>
              /\ Len(yielded) = document_number
              /\ fs[output_path] = document_number

\* C5 as stated: when the short-title backend throws, the name comes from the
\* heading title if one exists, otherwise from the numbered default pattern.
C5_AsStated ==
    /\ ShortFailureRecovered
    /\ (shortRaised /\ pc \in {"save", "yield", "suspended", "next", "done"}) =>
          IF title # Empty
          THEN output_path \in SlugNames(title)
          ELSE output_path = NumberedName

\* C5 amended: the name comes from the heading title if one exists and its
\* slug is not empty, otherwise from the numbered default pattern; the failure
\* never propagates and the document is still written and yielded.
C5_ShortTitleFallback ==
    /\ ShortFailureRecovered
    /\ (shortRaised /\ pc \in {"save", "yield", "suspended", "next", "done"}) =>
          IF title # Empty /\ _sanitize_filename(title) # Empty
          THEN output_path \in SlugNames(title)
          ELSE output_path = NumberedName

\* The short-title backend raised for a document with heading "A b": it was
\* written under the heading's slug and yielded.
C5_Witness ==
    /\ shortRaised
    /\ pc = "suspended"
    /\ title = <<"A", " ", "b">>
    /\ output_path = <<"a", "-", "b", ".", "d", "o", "c", "x">>
    /\ fs[output_path] = document_number

\* --------------------------------------------------- rendering: properties
RECURSIVE SinglePass(_, _)
\* The template with every placeholder of a key of the mapping replaced by the
\* key's value, in one pass: what is inserted is not looked at again.
SinglePass(s, variables) ==
    IF s = <<>> THEN <<>>
    ELSE IF \E k \in 1..Len(variables) : StartsWith(s, Placeholder(variables[k][1]))
    THEN LET k == CHOOSE k \in 1..Len(variables) :
                     StartsWith(s, Placeholder(variables[k][1]))
         IN  variables[k][2] \o
             SinglePass(Drop(s, Len(Placeholder(variables[k][1]))), variables)
    ELSE <<Head(s)>> \o SinglePass(Tail(s), variables)

\* C6: rendering never double-substitutes: the value inserted for a key of the
\* template is not scanned again, so it appears verbatim in the output, also
\* when it contains the placeholder of another key of the mapping.
C6_NoDoubleSubstitution ==
    RenderDone =>
        \A k \in 1..Len(Variables(renderContext)) :
            Contains(instructions, Placeholder(Variables(renderContext)[k][1])) =>
                Contains(rendered, Variables(renderContext)[k][2])

\* C7: the output is the template with every occurrence of a placeholder of a
\* mapped key replaced by that key's value and everything else, placeholders
\* of unmapped keys included, left verbatim; keys that do not occur in the
\* template change nothing.
C7_RenderContract ==
    RenderDone => rendered = SinglePass(instructions, Variables(renderContext))

\* ----------------------------------------------------- emitter: properties
\* A table as the parser builds it: a head grouping, then a body grouping.
IsParsedTable(token) ==
    /\ TypeOf(token) = "table"
    /\ "children" \in DOMAIN token
    /\ Len(token.children) = 2
    /\ token.children[1].type = "table_head"
    /\ token.children[2].type = "table_body"

\* N: the header cells of a parsed table.
HeaderCount(table) == Len(table.children[1].children)

\* M: the body rows of a parsed table.
BodyCount(table) == Len(table.children[2].children)

\* The number of cells of body row r.
BodyWidth(table, r) == Len(table.children[2].children[r].children)

\* The largest number of cells of the head and of the body rows.
MaxWidth(table) ==
    SetMax({HeaderCount(table)} \cup {BodyWidth(table, r) : r \in 1..BodyCount(table)})

\* The blocks the step appends to the document.
NewBlocks == SubSeq(emitter'.doc, Len(emitter.doc) + 1, Len(emitter'.doc))

\* The texts of the header cells of a parsed table.
HeaderTexts(table) ==
    [c \in 1..HeaderCount(table) |-> table.children[1].children[c].children[1].raw]

RowTexts(block, r) == [c \in 1..block.cols |-> block.cells[r][c].text]

\* A table block of M + 1 rows, as wide as the widest row, whose row 0 is the
\* header row.
HasStatedShape(block, table) ==
    /\ block.kind = "table"
    /\ block.rows = BodyCount(table) + 1
    /\ block.cols = MaxWidth(table)
    /\ SubSeq(RowTexts(block, 1), 1, HeaderCount(table)) = HeaderTexts(table)

HasFullRows(table) ==
    /\ HeaderCount(table) >= 1
    /\ \A r \in 1..BodyCount(table) : BodyWidth(table, r) >= 1

RECURSIVE NodesOf(_)
\* Every node of a list of trees.
NodesOf(trees) ==
    IF trees = <<>> THEN {}
    ELSE {Head(trees)} \cup NodesOf(Children(Head(trees))) \cup NodesOf(Tail(trees))

\* The node kinds of the syntax tree, under the names the parser gives them.
DefinedKinds ==
    {"text", "paragraph", "heading", "block_code", "block_quote", "thematic_break",
     "list", "list_item", "table", "table_head", "table_body", "table_row",
     "table_cell", "strong", "emphasis", "codespan", "link", "strikethrough",
     "linebreak", "softbreak", "blank_line", "block_text"}

\* Only defined kinds, and heading levels 1 to 6.
IsWellFormed(trees) ==
    \A node \in NodesOf(trees) :
        /\ TypeOf(node) \in DefinedKinds
        /\ TypeOf(node) = "heading" => Level(node) \in 1..6

\* C9: on a tree of the defined node kinds with heading levels 1 to 6 the
\* emitter raises nothing, whatever groupings its tables lack, and every
\* call ends: the handler of the next token returns and the loop stops at
\* the last token; a table without rows is skipped.
C9_NeverRaises ==
    IsWellFormed(tokens) =>
        /\ ~emitter.err
        /\ emitPos <= Len(tokens)
        /\ emitPos < Len(tokens) => ~_emit_token(emitter, tokens[emitPos + 1]).err
        /\ \A k \in 1..emitPos :
              (TypeOf(tokens[k]) = "table" /\ ~IsParsedTable(tokens[k])
                   /\ \A node \in NodesOf(<<tokens[k]>>) : TypeOf(node) # "table_cell")
              => \A b \in 1..Len(emitter.doc) : emitter.doc[b].kind = "paragraph"

\* A table without head grouping and without body grouping after a paragraph:
\* the paragraph is there, the table is skipped, nothing is raised.
C9_Witness ==
    /\ tokens = <<Para, [type |-> "table", children |-> <<>>]>>
    /\ emitPos = 2
    /\ ~emitter.err
    /\ Len(emitter.doc) = 1

RECURSIVE JoinRuns(_)
JoinRuns(runs) == IF runs = <<>> THEN <<>> ELSE Head(runs).text \o JoinRuns(Tail(runs))

\* The text a block shows.
BlockText(block) ==
    IF block.kind = "paragraph" THEN JoinRuns(block.runs)
    ELSE IF block.kind = "heading" THEN block.text
    ELSE Concat([k \in 1..(block.rows * block.cols) |->
                    block.cells[((k - 1) \div block.cols) + 1][((k - 1) % block.cols) + 1].text])

\* The text the document shows.
VisibleText(doc) == Concat([k \in 1..Len(doc) |-> BlockText(doc[k])])

\* The kinds _emit_token finds a method for.
HandledKinds ==
    {"blank_line", "paragraph", "heading", "block_code", "block_quote",
     "thematic_break", "list", "table", "token", "inline"}

\* C10: a block without handler that has children has them visited, so that
\* the text of its descendants shows in the document.
C10_FallbackKeepsText ==
    \A k \in 1..emitPos :
        (~emitter.err /\ TypeOf(tokens[k]) \notin HandledKinds
             /\ "children" \in DOMAIN tokens[k])
        => Contains(VisibleText(emitter.doc), _extract_text(tokens[k].children))

\* ------------------------------------------ orchestrator: naming properties
\* C11: under the slug naming policy the slug comes from the first-level
\* heading of the content whenever there is one, and from the short title the
\* model produced only when there is none.
C11_HeadingFirst ==
    (pc = "name" /\ ~shortRaised) =>
        IF title # Empty
        THEN base_name = _sanitize_filename(title)
        ELSE base_name \in {_sanitize_filename(short_title) : short_title \in ShortTitles}

\* ---------------------------------------------------------- cli: properties
\* C12: 'generate <project-yaml>' exits with code 0 only after every
\* configured document has been generated and written, having printed exactly
\* the output paths in quiet mode; on an error it has put a message on the
\* error stream and exits with code 1.
C12_GenerateCommand ==
    cliPc = "exited" =>
        /\ exit_code \in {0, 1}
        /\ exit_code = 0 =>
              /\ Len(yielded) = Sum([k \in 1..Len(config.kinds) |-> config.kinds[k].count])
              /\ \A n \in 1..Len(yielded) : WrittenBy(n) = {yielded[n][2]}
              /\ args.quiet => stdout = [n \in 1..Len(yielded) |-> yielded[n][2]]
        /\ exit_code = 1 => stderr # <<>>

\* ------------------------------------ orchestrator: configuration properties
\* C13: a kind without prompt uses the built-in prompt of its name; when there
\* is none a configuration error is raised, without retry and before any
\* document of the run has been generated or written, wherever the kind
\* stands in the list.
C13_PromptFailFast ==
    /\ pc \in {"awaitContent", "convert", "awaitShort", "name", "save", "yield", "suspended"} =>
          \/ config.kinds[kindIdx].prompt # Empty
          \/ \E b \in 1..Len(BuiltinKinds) : BuiltinKinds[b] = config.kinds[kindIdx].name
    /\ error = "prompt" =>
          /\ pc = "raised"
          /\ config.kinds[kindIdx].prompt = Empty
          /\ \A b \in 1..Len(BuiltinKinds) : BuiltinKinds[b] # config.kinds[kindIdx].name
          /\ calls.content = 0
          /\ yielded = <<>>
          /\ \A name \in DOMAIN fs : fs[name] = 0

\* The Markdown files directly inside a seed directory.
MarkdownNames(dir) ==
    {name \in DOMAIN dir.files :
        Len(name) >= 3 /\ SubSeq(name, Len(name) - 2, Len(name)) = <<".", "m", "d">>}

\* text is the files of dir in ascending order of name, each under its
\* 'Source: {filename}' heading, joined by the horizontal rule.
IsSeedConcatenation(text, dir) ==
    \E order \in [1..Cardinality(MarkdownNames(dir)) -> MarkdownNames(dir)] :
        /\ \A i, j \in DOMAIN order : i < j => StrLess(order[i], order[j])
        /\ text = Join(SectionSeparator,
                       [k \in DOMAIN order |-> SourceSection(order[k], dir.files[order[k]])])

\* C14: the seed content is the '*.md' files of seed_data_dir in
\* lexicographic order of name, each under a 'Source: {filename}' heading,
\* joined by a horizontal rule; a missing directory and a directory without
\* such a file raise before any generation call: nothing is generated,
\* written or yielded.
C14_SeedLoading ==
    LET dir == config.seed
        failing == ~dir.exists \/ MarkdownNames(dir) = {}
    IN  /\ failing =>
              /\ pc \in {"start", "raised"}
              /\ pc = "raised" => error = "seed"
              /\ calls = [content |-> 0, short |-> 0]
              /\ prompts = <<>>
              /\ yielded = <<>>
              /\ \A name \in DOMAIN fs : fs[name] = 0
        /\ error = "seed" => failing
        /\ (~failing /\ pc # "start") => IsSeedConcatenation(seed_content, dir)
        /\ pc \in {"prompt", "awaitContent", "convert", "awaitShort", "name", "save", "yield"} =>
              context.seed_content = seed_content

\* B.md, a.md and ab.md next to c.txt: the prompt context of a document holds
\* the three files in code point order.
C14_Witness ==
    /\ pc = "prompt"
    /\ context.seed_content =
          <<"#", "#", " ", "S", "o", "u", "r", "c", "e", ":", " ", "B", ".",
            "m", "d", "\n", "\n", "z", "\n", "\n", "-", "-", "-", "\n", "\n",
            "#", "#", " ", "S", "o", "u", "r", "c", "e", ":", " ", "a", ".",
            "m", "d", "\n", "\n", "x", "\n", "\n", "-", "-", "-", "\n", "\n",
            "#", "#", " ", "S", "o", "u", "r", "c", "e", ":", " ", "a", "b",
            ".", "m", "d", "\n", "\n", "y">>

\* ------------------------------------------- _sanitize_filename: properties
\* Characters a file system refuses in a name.
FilesystemUnsafe == {"<", ">", ":", "\"", "/", "\\", "|", "?", "*"}

\* Punctuation marks of the titles.
Punctuation == {"!", "&", ":", "?", ".", ",", ";", "'", "\"", "(", ")"}

\* C15: the slug of every title is lower-case, holds no filesystem-unsafe
\* character, no punctuation, no whitespace, no underscore and no two dashes
\* in a row, neither starts nor ends with a dash, and is at most 100
\* characters long, a longer name being cut at a dash.
C15_SlugShape ==
    /\ [](sanPc = "done" =>
            /\ \A k \in 1..Len(filename) :
                  /\ filename[k] \notin {"A", "Q", "R", "S", "O"}
                  /\ filename[k] \notin FilesystemUnsafe
                  /\ filename[k] \notin Punctuation
                  /\ filename[k] \notin {" ", "\t", "\n", "_"}
            /\ \A k \in 1..(Len(filename) - 1) : ~(filename[k] = "-" /\ filename[k + 1] = "-")
            /\ filename # <<>> => filename[1] # "-" /\ filename[Len(filename)] # "-"
            /\ Len(filename) <= 100)
    /\ [][(sanPc = "limit" /\ Len(filename) > 100) =>
             /\ Len(filename') <= 100
             /\ filename' = SubSeq(filename, 1, Len(filename'))
             /\ filename[Len(filename') + 1] = "-"]_vars

\* ------------------------------------------------- _extract_text: properties
RECURSIVE Unstyled(_)
\* The nodes with every style node replaced by its children.
Unstyled(nodes) ==
    IF nodes = <<>> THEN <<>>
    ELSE IF Head(nodes).type \in {"strong", "emphasis", "strikethrough", "link"}
    THEN Unstyled(Head(nodes).children) \o Unstyled(Tail(nodes))
    ELSE <<Head(nodes)>> \o Unstyled(Tail(nodes))

\* The text of a text-bearing node.
LeafText(leaf) ==
    IF leaf.type = "softbreak" THEN <<" ">>
    ELSE IF leaf.type = "linebreak" THEN <<"\n">>
    ELSE leaf.raw

\* C16: flattening is style-blind: the text of a heading is the raw text of
\* its text-bearing descendants in order, a soft break giving a space and a
\* hard break a newline, whatever strong, emphasis, strikethrough or link
\* nodes are wrapped around them.
C16_StyleBlind ==
    emitPos = 1 =>
        LET leaves == Unstyled(tokens[1].children)
        IN  /\ ~emitter.err
            /\ Len(emitter.doc) = 1
            /\ emitter.doc[1].kind = "heading"
            /\ emitter.doc[1].text = Concat([k \in 1..Len(leaves) |-> LeafText(leaves[k])])

\* The heading '**bold** and *italic*' has the text 'bold and italic'.
C16_Witness ==
    /\ emitPos = 1
    /\ tokens[1].children = BoldAndItalic
    /\ emitter.doc[1].text =
          <<"b", "o", "l", "d", " ", "a", "n", "d", " ", "i", "t", "a", "l", "i", "c">>

\* ---------------------------------------------- plain paragraphs: properties
\* The paragraphs among the first n tokens, in source order.
ParagraphsUpTo(n) == SelectSeq(SubSeq(tokens, 1, n), LAMBDA t : t.type = "paragraph")

\* The text of a paragraph of plain text: its lines joined by a space.
PlainText(paragraph) ==
    Concat([k \in 1..Len(paragraph.children) |->
               IF paragraph.children[k].type = "softbreak" THEN <<" ">>
               ELSE paragraph.children[k].raw])

\* C17: for an input of plain-text paragraphs only, the document has exactly
\* one block per paragraph, in source order; blank lines give no block.
C17_OneBlockPerParagraph ==
    LET source == ParagraphsUpTo(emitPos)
    IN  /\ ~emitter.err
        /\ Len(emitter.doc) = Len(source)
        /\ \A k \in 1..Len(source) :
              /\ emitter.doc[k].kind = "paragraph"
              /\ JoinRuns(emitter.doc[k].runs) = PlainText(source[k])

\* Paragraph a, a blank line, paragraph b: two blocks, a then b.
C17_Witness ==
    /\ emitPos = 3
    /\ tokens[1].type = "paragraph"
    /\ tokens[2].type = "blank_line"
    /\ tokens[3].type = "paragraph"
    /\ Len(emitter.doc) = 2
    /\ JoinRuns(emitter.doc[1].runs) = <<"a">>
    /\ JoinRuns(emitter.doc[2].runs) = <<"b">>

\* ------------------------------------------------------ cursor: properties
\* The kinds with a block handler that emits a block.
BlockHandlerKinds ==
    {"paragraph", "heading", "block_code", "block_quote", "thematic_break", "list", "table"}

\* C18: at most one paragraph is open; after a block handler has returned,
\* the early returns of the table handler included, the cursor is none; and
\* a block handler entered with a paragraph open closes it before it emits:
\* it leaves what the document already holds as it is.
C18_CursorInvariant ==
    /\ emitter.cur = 0
    /\ (emitPos < Len(tokens) /\ ~emitter.err /\ emitter.doc # <<>>
           /\ emitter.doc[Len(emitter.doc)].kind = "paragraph"
           /\ TypeOf(tokens[emitPos + 1]) \in BlockHandlerKinds) =>
          LET open  == [emitter EXCEPT !.cur = Len(emitter.doc)]
              after == _emit_token(open, tokens[emitPos + 1])
          IN  /\ after.cur = 0
              /\ Len(after.doc) >= Len(emitter.doc)
              /\ SubSeq(after.doc, 1, Len(emitter.doc)) = emitter.doc

\* A table whose head and body hold no cell, after a paragraph: the handler
\* returned early and the cursor is none.
C18_Witness ==
    /\ emitPos = 2
    /\ tokens[1] = Para
    /\ tokens[2] = [type |-> "table", children |-> <<TableHead(0), TableBody(<<>>)>>]
    /\ Len(emitter.doc) = 1
    /\ emitter.cur = 0

\* ------------------------------------------------ table header: properties
RECURSIVE RowOrigins(_)
\* The grouping each reconstructed row of a table comes from, row by row.
RowOrigins(groupings) ==
    IF groupings = <<>> THEN <<>>
    ELSE LET g == Head(groupings)
             here ==
                 IF g.type = "table_head"
                 THEN (IF g.children # <<>> THEN <<"head">> ELSE <<>>)
                 ELSE [k \in 1..Cardinality({r \in 1..Len(g.children) :
                                               g.children[r].children # <<>>}) |-> "body"]
         IN  here \o RowOrigins(Tail(groupings))

\* C19: in an emitted table the cells marked bold and tinted are exactly
\* those of the row that comes from the head grouping; a row that comes from
\* the body grouping is never bold or tinted, also when there is no head or
\* an empty one; the text of a cell outside the header row is stored without
\* leading or trailing whitespace.
C19_HeaderCells ==
    [][(TypeOf(tokens[emitPos + 1]) = "table" /\ Len(NewBlocks) = 1) =>
          LET block   == NewBlocks[1]
              origins == RowOrigins(Children(tokens[emitPos + 1]))
          IN  /\ block.rows = Len(origins)
              /\ \A r \in 1..block.rows, c \in 1..block.cols :
                    LET cell == block.cells[r][c]
                    IN  IF origins[r] = "head"
                        THEN /\ cell.fill = "D9E2F3"
                             /\ cell.set => cell.bold
                        ELSE /\ ~cell.bold
                             /\ cell.fill = ""
                             /\ cell.text = Strip(cell.text, {" ", "\t", "\n"})]_vars

\* ------------------------------------------- previous titles: properties
\* The titles the current document's context was built from, followed by
\* the current document's own title once it has been extracted.
TitlesAfter(ctx, t) ==
    IF t # Empty THEN Append(ctx.previous_titles, t) ELSE ctx.previous_titles

\* The list of titles changes only when a document's content has just been
\* generated, and then by its first-level heading title added at the end.
C20_AppendOnly ==
    /\ generated_titles' # generated_titles =>
          /\ pc = "convert"
          /\ _extract_title(markdown_content) # Empty
          /\ generated_titles' =
                Append(generated_titles, _extract_title(markdown_content))
    /\ (pc = "convert" /\ pc' # "convert") =>
          /\ title' = _extract_title(markdown_content)
          /\ generated_titles' = TitlesAfter(context, title')
    /\ context' # context =>
          /\ pc = "next"
          /\ generated_titles' = generated_titles
          /\ context'.document_number = document_number'
          /\ context'.previous_titles = generated_titles

\* What the context of the current document holds, at every point of the run.
C20_ContextTitles ==
    /\ Len(generated_titles) <= document_number
    /\ pc \in {"prompt", "awaitContent", "convert"} =>
          /\ context.document_number = document_number
          /\ context.previous_titles = generated_titles
          /\ Len(context.previous_titles) <= document_number - 1
    /\ pc \in {"awaitShort", "name", "save", "yield", "suspended"} =>
          /\ context.document_number = document_number
          /\ generated_titles = TitlesAfter(context, title)
          /\ Len(context.previous_titles) <= document_number - 1

RecognizedInline ==
    {"text", "strong", "emphasis", "codespan", "strikethrough", "link",
     "linebreak", "softbreak"}

RECURSIVE RunSources(_)
\* The nodes a run is expected for, in order: the children of a recognized
\* kind, and those reached through nodes of any other kind with children.
RunSources(nodes) ==
    IF nodes = <<>> THEN <<>>
    ELSE LET node == Head(nodes)
             here == IF node.type \in RecognizedInline THEN <<node>>
                     ELSE IF "children" \in DOMAIN node THEN RunSources(node.children)
                     ELSE <<>>
         IN  here \o RunSources(Tail(nodes))

\* The flattened text of the children of a style node.
FlatText(nodes) ==
    LET leaves == Unstyled(nodes)
    IN  Concat([k \in 1..Len(leaves) |-> LeafText(leaves[k])])

\* The style flags set on a run.
StyleFlags(run) ==
    (IF run.bold THEN {"bold"} ELSE {}) \cup
    (IF run.italic THEN {"italic"} ELSE {}) \cup
    (IF run.strike THEN {"strikethrough"} ELSE {}) \cup
    (IF run.font # "" THEN {"monospace"} ELSE {})

\* run is the run the claim gives for a node of a recognized kind.
RunMatches(node, run) ==
    CASE node.type = "text" ->
            run.text = node.raw /\ StyleFlags(run) = {}
      [] node.type = "strong" ->
            run.text = FlatText(node.children) /\ StyleFlags(run) = {"bold"}
      [] node.type = "emphasis" ->
            run.text = FlatText(node.children) /\ StyleFlags(run) = {"italic"}
      [] node.type = "codespan" ->
            run.text = node.raw /\ StyleFlags(run) = {"monospace"}
      [] node.type = "strikethrough" ->
            run.text = FlatText(node.children) /\ StyleFlags(run) = {"strikethrough"}
      [] node.type = "link" ->
            /\ run.text = FlatText(node.children) \o <<" ", "(">> \o node.attrs.url \o <<")">>
            /\ StyleFlags(run) = {}
      [] node.type = "linebreak" ->
            run.text = <<"\n">> /\ StyleFlags(run) = {}
      [] node.type = "softbreak" ->
            run.text = <<" ">> /\ StyleFlags(run) = {}

\* One more inline child, of each recognized kind.
OneMoreInline ==
    InlineLeaves \cup {StyleNode(kind, <<Text(<<"b">>)>>) : kind \in StyleKinds}

\* C21: within a paragraph each inline child of a recognized kind appends
\* exactly one run, in child order, and no run already appended is changed
\* or merged: text gives a run without style flag, strong one bold run of
\* the flattened text, emphasis one italic run, a code span one monospace
\* run of the raw text, strikethrough one struck run, a link one run
\* 'text (url)', a hard break the run '\n', a soft break the run ' '; a node
\* of any other kind with children passes its children on to the same
\* paragraph. 'Some **bold** text.' gives runs that read 'Some bold text.'
\* with exactly 'bold' bold.
C21_OneRunPerInline ==
    emitPos = 1 =>
        LET children == tokens[1].children
            sources  == RunSources(children)
            runs     == emitter.doc[1].runs
        IN  /\ ~emitter.err
            /\ Len(emitter.doc) = 1
            /\ emitter.doc[1].kind = "paragraph"
            /\ Len(runs) = Len(sources)
            /\ \A k \in 1..Len(runs) : RunMatches(sources[k], runs[k])
            /\ \A node \in OneMoreInline :
                  LET more == _emit_inline(emitter, <<node>>, 1).doc[1].runs
                  IN  /\ Len(more) = Len(runs) + 1
                      /\ SubSeq(more, 1, Len(runs)) = runs
                      /\ RunMatches(node, more[Len(more)])
            /\ children = SomeBoldText =>
                  /\ Concat([k \in 1..Len(runs) |-> runs[k].text]) =
                        <<"S", "o", "m", "e", " ", "b", "o", "l", "d", " ",
                          "t", "e", "x", "t", ".">>
                  /\ {k \in 1..Len(runs) : runs[k].bold} = {2}
                  /\ runs[2].text = <<"b", "o", "l", "d">>

\* 'Some **bold** text.' has been emitted as three runs, the second one bold.
C21_Witness ==
    /\ emitPos = 1
    /\ tokens[1].children = SomeBoldText
    /\ emitter.doc[1].runs =
          << Run(<<"S", "o", "m", "e", " ">>),
             BoldRun(<<"b", "o", "l", "d">>),
             Run(<<" ", "t", "e", "x", "t", ".">>) >>

\* --------------------------------------------- output paths: properties
\* The output path of the i-th yielded document.
YieldedPath(i) == yielded[i][2]

HasUnderscore(name) == \E k \in 1..Len(name) : name[k] = "_"

\* C22: within one run the output paths of the yielded documents are
\* pairwise distinct, whatever the mix of slug names and numbered default
\* names: a slug name has no underscore and a default name has one, default
\* names differ by the global document index, a slug name is one that no
\* file has when it is chosen; so no document of a run overwrites another
\* document of the same run.
C22_DistinctPaths ==
    /\ \A i, j \in 1..Len(yielded) : i # j => YieldedPath(i) # YieldedPath(j)
    /\ \A i \in 1..Len(yielded) :
          /\ fs[YieldedPath(i)] = i
          /\ HasUnderscore(YieldedPath(i)) =>
                YieldedPath(i) = DefaultFilename(yielded[i][1], i)
    /\ pc \in {"save", "yield", "suspended"} =>
          IF base_name # Empty
          THEN /\ ~HasUnderscore(base_name)
               /\ ~HasUnderscore(output_path)
               /\ pc = "save" => output_path \notin DOMAIN fs
          ELSE /\ output_path =
                     DefaultFilename(config.kinds[kindIdx].name, document_number)
               /\ HasUnderscore(output_path)

\* Three documents of kind "memo": the first and the third named after the
\* short title 'memo_002', the second by the numbered default.
C22_Witness ==
    /\ Len(yielded) = 3
    /\ YieldedPath(1) = <<"m", "e", "m", "o", "-", "0", "0", "2", ".", "d", "o", "c", "x">>
    /\ YieldedPath(2) = <<"m", "e", "m", "o", "_", "0", "0", "2", ".", "d", "o", "c", "x">>
    /\ YieldedPath(3) =
          <<"m", "e", "m", "o", "-", "0", "0", "2", "-", "2", ".", "d", "o", "c", "x">>

====
